---------------------------- MODULE Spec2Model ----------------------------
(***************************************************************************)
(* Model of plastercast's mDNS device discovery:                           *)
(*   - DeviceRecord::from_mdns, the advertisement parser (device.rs)       *)
(*   - DeviceDiscoveryCache, the poll orchestration (discoverycache.rs)    *)
(*                                                                         *)
(* Strings that the parser splits are modelled as sequences of one-        *)
(* character strings, so that str::split is computed, not assumed.         *)
(* Option<T> is modelled as a sequence: None is <<>>, Some(v) is <<v>>.     *)
(***************************************************************************)
EXTENDS Integers, Sequences, FiniteSets, TLC

VARIABLES
    \* ---- DeviceDiscoveryCache fields (discoverycache.rs:13-20)
    device_records,     \* HashSet<DeviceRecord> behind its Mutex
    poll_start_time,    \* Instant, written by the caller's thread only
    poll_finish_time,   \* Instant behind its Mutex
    timeout_ms,         \* pub timeout_ms: Duration
    \* ---- environment of the cache
    clock,              \* the last reading Instant::now() returned
    tasks,              \* the poll threads: id -> [pc, record, timeout] (the
                        \* timeout is the thread's own copy, gone when it
                        \* ends) and, while at "begin", the set as it was at
                        \* the spawn
    records_lock,       \* holder of device_records' Mutex, or NoHolder
    finish_lock,        \* holder of poll_finish_time's Mutex, or NoHolder
    poisoned,           \* the Mutexes a panicking holder has poisoned
    yielded,            \* number of items the transport has yielded so far
    history,            \* ghost: the caller's state and last snapshot, the
                        \* responses yielded, the inserts completed (their
                        \* number and the records they were given)
    \* ---- one run of DeviceRecord::from_mdns on its own
    p_response,         \* the mdns::Response handed to the parser
    p_result,           \* Option<DeviceRecord> it returned
    p_name,             \* Option of what display_name returned for it
    p_pc                \* "idle" | "input" | "done" | "shown"

cache_vars == <<device_records, poll_start_time, poll_finish_time, timeout_ms,
                clock, tasks, records_lock, finish_lock, poisoned, yielded,
                history>>
parser_vars == <<p_response, p_result, p_name, p_pc>>
vars == <<device_records, poll_start_time, poll_finish_time, timeout_ms,
          clock, tasks, records_lock, finish_lock, poisoned, yielded,
          history, p_response, p_result, p_name, p_pc>>

-----------------------------------------------------------------------------
(* Bounds of the model *)

\* records plus attribute entries in one response handed to the parser alone
MaxSize == 5
\* readings of the monotonic clock are 0..MaxTime
MaxTime == 3
\* poll threads ever spawned on the cache
MaxPolls == 2
\* records in one response of a device whose record is displayed
MaxRecords == 4
\* items the transport yields over the life of the cache
MaxResponses == 2

-----------------------------------------------------------------------------
(* Option<T> *)

None == <<>>
Some(v) == <<v>>
unwrap(o) == o[1]

Max(S) == CHOOSE x \in S : \A y \in S : y <= x

-----------------------------------------------------------------------------
(* DeviceRecord::from_mdns (device.rs:76-148) *)

\* the accumulators declared at device.rs:77-85, all None
EmptyAcc ==
    [ptr |-> None, ip_addr |-> None, port |-> None, device_uuid |-> None,
     model |-> None, version |-> None, icon_path |-> None,
     certificate_authority |-> None, friendly_name |-> None]

\* str::split(sep): the pieces between every occurrence of sep
RECURSIVE SplitFrom(_, _, _, _)
SplitFrom(s, sep, i, cur) ==
    IF i > Len(s) THEN <<cur>>
    ELSE IF s[i] = sep THEN <<cur>> \o SplitFrom(s, sep, i + 1, <<>>)
    ELSE SplitFrom(s, sep, i + 1, Append(cur, s[i]))

split(s, sep) == SplitFrom(s, sep, 1, <<>>)

\* a bug the code could have: the first value of a key wins
ScanEntryFirstWins(acc, record) ==
    LET splits == split(record, "=")
        key == splits[1]
        val == Some(splits[2])
        set(f) == IF acc[f] = None THEN [acc EXCEPT ![f] = val] ELSE acc
    IN  IF Len(splits) # 2 THEN acc
        ELSE CASE key = <<"c", "a">> -> set("certificate_authority")
               [] key = <<"f", "n">> -> set("friendly_name")
               [] key = <<"i", "c">> -> set("icon_path")
               [] key = <<"i", "d">> -> set("device_uuid")
               [] key = <<"m", "d">> -> set("model")
               [] key = <<"v", "e">> -> set("version")
               [] OTHER -> acc

\* one entry of a TXT record (device.rs:98-117)
ScanEntry(acc, record) ==
    LET splits == split(record, "=")
        key == splits[1]
        val == Some(splits[2])
    IN  IF Len(splits) # 2 THEN acc
        ELSE CASE key = <<"c", "a">> -> [acc EXCEPT !.certificate_authority = val]
               [] key = <<"f", "n">> -> [acc EXCEPT !.friendly_name = val]
               [] key = <<"i", "c">> -> [acc EXCEPT !.icon_path = val]
               [] key = <<"i", "d">> -> [acc EXCEPT !.device_uuid = val]
               [] key = <<"m", "d">> -> [acc EXCEPT !.model = val]
               [] key = <<"v", "e">> -> [acc EXCEPT !.version = val]
               [] OTHER -> acc

\* for record in records.iter() (device.rs:98)
RECURSIVE ScanTxt(_, _, _)
ScanTxt(acc, records, i) ==
    IF i > Len(records) THEN acc
    ELSE ScanTxt(ScanEntry(acc, records[i]), records, i + 1)

\* a bug the code could have: the first address, port and service pointer
\* of a response are kept
ScanRecordFirstWins(acc, dns_record) ==
    LET set(f, v) == IF acc[f] = None THEN [acc EXCEPT ![f] = Some(v)] ELSE acc
    IN  CASE dns_record.kind = "A" -> set("ip_addr", dns_record.addr)
          [] dns_record.kind = "AAAA" -> set("ip_addr", dns_record.addr)
          [] dns_record.kind = "SRV" -> set("port", dns_record.port)
          [] dns_record.kind = "TXT" -> ScanTxt(acc, dns_record.records, 1)
          [] dns_record.kind = "PTR" -> set("ptr", dns_record.string)
          [] OTHER -> acc

\* match dns_record.kind (device.rs:87-123)
ScanRecord(acc, dns_record) ==
    CASE dns_record.kind = "A" -> [acc EXCEPT !.ip_addr = Some(dns_record.addr)]
      [] dns_record.kind = "AAAA" -> [acc EXCEPT !.ip_addr = Some(dns_record.addr)]
      [] dns_record.kind = "SRV" -> [acc EXCEPT !.port = Some(dns_record.port)]
      [] dns_record.kind = "TXT" -> ScanTxt(acc, dns_record.records, 1)
      [] dns_record.kind = "PTR" -> [acc EXCEPT !.ptr = Some(dns_record.string)]
      [] OTHER -> acc

\* for dns_record in response.records() (device.rs:86)
RECURSIVE ScanResponse(_, _, _)
ScanResponse(acc, response, i) ==
    IF i > Len(response) THEN acc
    ELSE ScanResponse(ScanRecord(acc, response[i]), response, i + 1)

\* a bug the code could have: a record is built without a port having been seen
ConstructWithoutPort(acc) ==
    IF acc.ip_addr # None
    THEN Some([acc EXCEPT !.ip_addr = unwrap(acc.ip_addr),
                          !.port = IF acc.port = None THEN 0 ELSE unwrap(acc.port)])
    ELSE None

\* the two if-lets that build the DeviceRecord or give None (device.rs:126-146)
Construct(acc) ==
    IF acc.ip_addr # None
    THEN IF acc.port # None
         THEN Some([acc EXCEPT !.ip_addr = unwrap(acc.ip_addr),
                               !.port = unwrap(acc.port)])
         ELSE None
    ELSE None

from_mdns(response) == Construct(ScanResponse(EmptyAcc, response, 1))

-----------------------------------------------------------------------------
(* DeviceRecord::display_name (device.rs:67-71) *)

\* const DEFAULT_NAME (device.rs:7)
DEFAULT_NAME == <<"U", "n", "n", "a", "m", "e", "d">>

\* a bug the code could have: no default is substituted for a missing name
DisplayNameWithoutDefault(record) ==
    LET friendly_name == IF record.friendly_name = None THEN <<>>
                         ELSE unwrap(record.friendly_name)
    IN  friendly_name \o <<" ", "(">> \o <<record.ip_addr>> \o <<")">>

\* format!("{} ({})", friendly_name, self.ip_addr); the address is displayed
\* as one piece, its textual form
display_name(record) ==
    LET default_name == DEFAULT_NAME
        friendly_name == IF record.friendly_name = None THEN default_name
                         ELSE unwrap(record.friendly_name)
    IN  friendly_name \o <<" ", "(">> \o <<record.ip_addr>> \o <<")">>

-----------------------------------------------------------------------------
(* The responses handed to the parser *)

\* mdns::RecordKind values other than TXT
PlainRecords ==
    { [kind |-> "A", addr |-> "198.51.100.7"],
      [kind |-> "AAAA", addr |-> "2001:db8::7"],
      [kind |-> "SRV", port |-> 8009],
      [kind |-> "PTR", string |-> "_googlecast._tcp.local"],
      [kind |-> "NS"] }

\* entries of TXT records: the six recognized keys, a second value for one
\* of them, an unrecognized key, an entry without '=' and one with two '='
EntryPool ==
    { <<"c", "a", "=", "a">>, <<"f", "n", "=", "a">>, <<"i", "c", "=", "a">>,
      <<"i", "d", "=", "a">>, <<"m", "d", "=", "a">>, <<"v", "e", "=", "a">>,
      <<"f", "n", "=", "b">>, <<"x", "x", "=", "a">>, <<"f", "n">>,
      <<"f", "n", "=", "a", "=", "b">> }

EmptyTxt == [kind |-> "TXT", records |-> <<>>]

\* the size of a response: a record counts 1, every TXT entry counts 1 more
RECURSIVE ResponseSize(_)
ResponseSize(response) ==
    IF response = <<>> THEN 0
    ELSE LET dns_record == Head(response)
         IN  1 + (IF dns_record.kind = "TXT" THEN Len(dns_record.records) ELSE 0)
               + ResponseSize(Tail(response))

-----------------------------------------------------------------------------
(* One run of the parser on its own: a response of at most MaxSize is put *)
(* together record by record, then the parser is applied to it            *)

\* the response under construction gets one more record
ResponseAddRecord ==
    /\ p_pc = "input"
    /\ ResponseSize(p_response) < MaxSize
    /\ \E dns_record \in PlainRecords \cup {EmptyTxt} :
        p_response' = Append(p_response, dns_record)
    /\ UNCHANGED <<p_result, p_name, p_pc, cache_vars>>

\* its last record, a TXT record, gets one more entry
ResponseAddEntry ==
    /\ p_pc = "input"
    /\ ResponseSize(p_response) < MaxSize
    /\ p_response # <<>>
    /\ p_response[Len(p_response)].kind = "TXT"
    /\ \E entry \in EntryPool :
        p_response' = [p_response EXCEPT ![Len(p_response)].records =
                                            Append(@, entry)]
    /\ UNCHANGED <<p_result, p_name, p_pc, cache_vars>>

\* DeviceRecord::from_mdns(&response) is called
Parse ==
    /\ p_pc = "input"
    /\ p_result' = from_mdns(p_response)
    /\ p_pc' = "done"
    /\ UNCHANGED <<p_response, p_name, cache_vars>>

-----------------------------------------------------------------------------
(* One device record on its own: a response of at most MaxRecords records   *)
(* is put together, parsed, and the record's display name is asked for      *)

\* the attributes of the advertisement "fn=Living Room", "md=Chromecast Ultra"
LivingRoomTxt ==
    [kind |-> "TXT",
     records |-> << <<"f", "n", "=", "L", "i", "v", "i", "n", "g", " ",
                      "R", "o", "o", "m">>,
                    <<"m", "d", "=", "C", "h", "r", "o", "m", "e", "c", "a",
                      "s", "t", " ", "U", "l", "t", "r", "a">> >>]

\* the records a response is put together from: two of every kind the
\* parser keeps one value of, and one attribute list
AdvertisedRecords ==
    { [kind |-> "A", addr |-> "198.51.100.7"],
      [kind |-> "A", addr |-> "203.0.113.9"],
      [kind |-> "AAAA", addr |-> "2001:db8::7"],
      [kind |-> "SRV", port |-> 8009],
      [kind |-> "SRV", port |-> 8010],
      [kind |-> "PTR", string |-> "_googlecast._tcp.local"],
      [kind |-> "PTR", string |-> "Living-Room._googlecast._tcp.local"],
      LivingRoomTxt }

\* the response under construction gets one more of these records
ResponseAddAdvertised ==
    /\ p_pc = "input"
    /\ Len(p_response) < MaxRecords
    /\ \E dns_record \in AdvertisedRecords :
        p_response' = Append(p_response, dns_record)
    /\ UNCHANGED <<p_result, p_name, p_pc, cache_vars>>

\* record.display_name() is called on the record the parser returned
DisplayName ==
    /\ p_pc = "done"
    /\ p_result # None
    /\ p_name' = Some(display_name(unwrap(p_result)))
    /\ p_pc' = "shown"
    /\ UNCHANGED <<p_response, p_result, cache_vars>>

-----------------------------------------------------------------------------
(* DeviceDiscoveryCache (discoverycache.rs) *)

\* const DEFAULT_TIMEOUT_MS (discoverycache.rs:24), in milliseconds
DEFAULT_TIMEOUT_MS == 2000

TaskIds == 1..MaxPolls
NoHolder == 0

\* what the transport can yield as Ok(response) during a poll
TransportResponses ==
    { \* a full advertisement
      << [kind |-> "PTR", string |-> "_googlecast._tcp.local"],
         [kind |-> "TXT", records |-> << <<"f", "n", "=", "a">> >>],
         [kind |-> "SRV", port |-> 8009],
         [kind |-> "A", addr |-> "198.51.100.7"] >>,
      \* the same device advertising other attributes
      << [kind |-> "A", addr |-> "198.51.100.7"],
         [kind |-> "SRV", port |-> 8009],
         [kind |-> "TXT", records |-> << <<"m", "d", "=", "a">> >>] >>,
      \* an advertisement without a service-location record
      << [kind |-> "A", addr |-> "198.51.100.7"],
         [kind |-> "TXT", records |-> << <<"f", "n", "=", "b">> >>] >> }

\* Instant::now(): no less than any instant measured before
Readings == {t \in clock..(clock + 1) : t <= MaxTime}

\* a bug the code could have: equality on (ip_addr, port) alone, the
\* identity that the comment at device.rs:9-11 considers
AddressAndPortEq(a, b) ==
    /\ a.ip_addr = b.ip_addr
    /\ a.port = b.port

\* #[derive(PartialEq, Eq, Hash)] on DeviceRecord (device.rs:28): all fields
DerivedEq(a, b) ==
    /\ a.ptr = b.ptr
    /\ a.ip_addr = b.ip_addr
    /\ a.port = b.port
    /\ a.device_uuid = b.device_uuid
    /\ a.model = b.model
    /\ a.version = b.version
    /\ a.icon_path = b.icon_path
    /\ a.certificate_authority = b.certificate_authority
    /\ a.friendly_name = b.friendly_name

\* the set is kept as the bag of its stored entries: record -> copies stored
Stored(records) == DOMAIN records
NoRecords == [r \in {} |-> 0]

\* a bug the code could have: an entry for the same (ip_addr, port) is
\* updated in place, keeping the fields the new record does not give
InsertMerging(records, record) ==
    LET same == {r \in Stored(records) :
                    r.ip_addr = record.ip_addr /\ r.port = record.port}
        merged(old) ==
            [f \in DOMAIN old |->
                IF f \in {"ip_addr", "port"} THEN record[f]
                ELSE IF record[f] = None THEN old[f] ELSE record[f]]
        kept == (Stored(records) \ same)
                    \cup (IF same = {} THEN {record}
                          ELSE {merged(old) : old \in same})
    IN  [r \in kept |-> 1]

\* HashSet::insert (discoverycache.rs:62): nothing is stored when an equal
\* element is present
insert(records, record) ==
    IF \E r \in Stored(records) : DerivedEq(r, record)
    THEN records
    ELSE [r \in Stored(records) \cup {record} |->
            IF r \in Stored(records) THEN records[r] ELSE 1]

\* is_discovery_running (discoverycache.rs:76-79)
is_discovery_running == poll_start_time > poll_finish_time

\* the Mutexes a thread holds
HeldBy(who) ==
    (IF records_lock = who THEN {"device_records"} ELSE {})
        \cup (IF finish_lock = who THEN {"poll_finish_time"} ELSE {})

NotSpawned == [pc |-> "unspawned", record |-> None, timeout |-> None,
               before |-> NoRecords, disturbed |-> FALSE]

CallerAlive == history.caller = "running"

\* DeviceDiscoveryCache::new (discoverycache.rs:26-36)
NewCache ==
    /\ device_records = NoRecords
    /\ clock = 0
    /\ poll_start_time = 0
    /\ poll_finish_time = 0
    /\ timeout_ms = DEFAULT_TIMEOUT_MS
    /\ tasks = [t \in TaskIds |-> NotSpawned]
    /\ records_lock = NoHolder
    /\ finish_lock = NoHolder
    /\ poisoned = {}
    /\ yielded = 0
    /\ history = [caller |-> "running", snapshot |-> {}, responses |-> {},
                  inserts |-> 0, inserted |-> {}]

\* lock().unwrap() on a poisoned Mutex panics in the caller's thread
CallerPanic ==
    /\ history' = [history EXCEPT !.caller = "panicked"]
    /\ UNCHANGED <<device_records, poll_start_time, poll_finish_time,
                   timeout_ms, clock, tasks, records_lock, finish_lock,
                   poisoned, yielded, parser_vars>>

\* the values the caller assigns to the timeout: the default and another
TimeoutValues == {DEFAULT_TIMEOUT_MS, 500}

\* a bug the code could have: the poll threads share the field with the
\* cache, so that an assignment reaches the polls in flight
SetTimeoutReachingPolls ==
    /\ CallerAlive
    /\ \E value \in TimeoutValues :
        /\ timeout_ms' = value
        /\ tasks' = [t \in TaskIds |->
                        IF tasks[t].pc \in {"unspawned", "done", "panicked"}
                        THEN tasks[t]
                        ELSE [tasks[t] EXCEPT !.timeout = Some(value)]]
    /\ UNCHANGED <<device_records, poll_start_time, poll_finish_time, clock,
                   records_lock, finish_lock, poisoned, yielded, history,
                   parser_vars>>

\* the caller assigns the public field timeout_ms (discoverycache.rs:19)
SetTimeout ==
    /\ CallerAlive
    /\ \E value \in TimeoutValues : timeout_ms' = value
    /\ UNCHANGED <<device_records, poll_start_time, poll_finish_time, clock,
                   tasks, records_lock, finish_lock, poisoned, yielded,
                   history, parser_vars>>

\* thread::spawn at discoverycache.rs:46-51: the next thread starts with
\* clones of the two Arcs and copies of timeout_ms and service_name
Spawn ==
    \E t \in TaskIds :
        /\ tasks[t].pc = "unspawned"
        /\ \A u \in TaskIds : u < t => tasks[u].pc # "unspawned"
        /\ tasks' = [tasks EXCEPT ![t] =
                        [pc |-> "begin", record |-> None,
                         timeout |-> Some(timeout_ms),
                         before |-> device_records, disturbed |-> FALSE]]

\* a bug the code could have: the start time is taken before the test, so
\* that a call made while a poll is running still moves it
StartDiscoveryStampingFirst ==
    /\ CallerAlive
    /\ finish_lock = NoHolder
    /\ IF "poll_finish_time" \in poisoned
       THEN CallerPanic
       ELSE /\ \E now \in Readings :
                /\ clock' = now
                /\ poll_start_time' = now
            /\ IF ~is_discovery_running THEN Spawn ELSE tasks' = tasks
            /\ UNCHANGED <<device_records, poll_finish_time, timeout_ms,
                           records_lock, finish_lock, poisoned, yielded,
                           history, parser_vars>>

\* a bug the code could have: the set is emptied when a new poll is started
StartDiscoveryClearing ==
    /\ CallerAlive
    /\ finish_lock = NoHolder
    /\ records_lock = NoHolder
    /\ IF "poll_finish_time" \in poisoned
       THEN CallerPanic
       ELSE IF ~is_discovery_running
            THEN /\ \E now \in Readings :
                     /\ clock' = now
                     /\ poll_start_time' = now
                 /\ Spawn
                 /\ device_records' = NoRecords
                 /\ UNCHANGED <<poll_finish_time, timeout_ms, records_lock,
                                finish_lock, poisoned, yielded, history,
                                parser_vars>>
            ELSE UNCHANGED vars

\* start_discovery (discoverycache.rs:42-73)
StartDiscovery ==
    /\ CallerAlive
    /\ finish_lock = NoHolder
    /\ IF "poll_finish_time" \in poisoned
       THEN CallerPanic
       ELSE IF ~is_discovery_running
            THEN /\ \E now \in Readings :
                     /\ clock' = now
                     /\ poll_start_time' = now
                 /\ Spawn
                 /\ UNCHANGED <<device_records, poll_finish_time, timeout_ms,
                                records_lock, finish_lock, poisoned, yielded,
                                history, parser_vars>>
            ELSE UNCHANGED vars

\* a bug the code could have: the set is moved out of the Mutex
\* (std::mem::take) instead of cloned
DevicesTaking ==
    /\ CallerAlive
    /\ records_lock = NoHolder
    /\ IF "device_records" \in poisoned
       THEN CallerPanic
       ELSE /\ history' = [history EXCEPT !.snapshot = Stored(device_records)]
            /\ device_records' = NoRecords
            /\ UNCHANGED <<poll_start_time, poll_finish_time, timeout_ms,
                           clock, tasks, records_lock, finish_lock, poisoned,
                           yielded, parser_vars>>

\* devices (discoverycache.rs:82-84)
Devices ==
    /\ CallerAlive
    /\ records_lock = NoHolder
    /\ IF "device_records" \in poisoned
       THEN CallerPanic
       ELSE /\ history' = [history EXCEPT !.snapshot = Stored(device_records)]
            /\ UNCHANGED <<device_records, poll_start_time, poll_finish_time,
                           timeout_ms, clock, tasks, records_lock, finish_lock,
                           poisoned, yielded, parser_vars>>

-----------------------------------------------------------------------------
(* The poll thread, thread::spawn(move || ...) (discoverycache.rs:51-69) *)

Release(lock, t) == IF lock = t THEN NoHolder ELSE lock

\* a panic unwinds the thread: what the closure owns is dropped, and the
\* Mutex of every guard it holds is poisoned
Panic(t) ==
    /\ tasks' = [tasks EXCEPT ![t].pc = "panicked", ![t].timeout = None]
    /\ poisoned' = poisoned \cup HeldBy(t)
    /\ records_lock' = Release(records_lock, t)
    /\ finish_lock' = Release(finish_lock, t)

\* mdns::discover::all(service_name) is Ok (discoverycache.rs:52-54)
TaskBeginOk(t) ==
    /\ tasks[t].pc = "begin"
    /\ tasks' = [tasks EXCEPT ![t].pc = "next", ![t].before = NoRecords,
                              ![t].disturbed = FALSE]
    /\ UNCHANGED <<device_records, poll_start_time, poll_finish_time,
                   timeout_ms, clock, records_lock, finish_lock, poisoned,
                   yielded, history, parser_vars>>

\* a bug the code could have: the query is begun with the set's guard
\* held, so that the panic poisons the Mutex
TaskBeginFailHoldingLock(t) ==
    /\ tasks[t].pc = "begin"
    /\ records_lock = NoHolder
    /\ tasks' = [tasks EXCEPT ![t].pc = "panicked", ![t].timeout = None]
    /\ poisoned' = poisoned \cup {"device_records"}
    /\ UNCHANGED <<device_records, poll_start_time, poll_finish_time,
                   timeout_ms, clock, records_lock, finish_lock, yielded,
                   history, parser_vars>>

\* mdns::discover::all(service_name) is Err: unwrap() panics
\* (discoverycache.rs:53)
TaskBeginFail(t) ==
    /\ tasks[t].pc = "begin"
    /\ Panic(t)
    /\ UNCHANGED <<device_records, poll_start_time, poll_finish_time,
                   timeout_ms, clock, yielded, history, parser_vars>>

\* the stream yields Ok(response) and the response is parsed
\* (discoverycache.rs:58-60)
TaskResponse(t) ==
    /\ tasks[t].pc = "next"
    /\ yielded < MaxResponses
    /\ \E response \in TransportResponses :
        LET parsed == from_mdns(response)
        IN  /\ tasks' = [tasks EXCEPT ![t].pc =
                            IF parsed = None THEN "next" ELSE "parsed",
                                      ![t].record = parsed]
            /\ history' = [history EXCEPT !.responses = @ \cup {response}]
    /\ yielded' = yielded + 1
    /\ UNCHANGED <<device_records, poll_start_time, poll_finish_time,
                   timeout_ms, clock, records_lock, finish_lock, poisoned,
                   parser_vars>>

\* a bug the code could have: the item is unwrapped, so that an Err(_) of
\* the stream panics the thread
TaskErrorItemUnwrapped(t) ==
    /\ tasks[t].pc = "next"
    /\ yielded < MaxResponses
    /\ yielded' = yielded + 1
    /\ Panic(t)
    /\ UNCHANGED <<device_records, poll_start_time, poll_finish_time,
                   timeout_ms, clock, history, parser_vars>>

\* the stream yields Err(_): the if-let skips it (discoverycache.rs:59)
TaskErrorItem(t) ==
    /\ tasks[t].pc = "next"
    /\ yielded < MaxResponses
    /\ yielded' = yielded + 1
    /\ UNCHANGED <<device_records, poll_start_time, poll_finish_time,
                   timeout_ms, clock, tasks, records_lock, finish_lock,
                   poisoned, history, parser_vars>>

\* a bug the code could have: the end of the stream is noticed between the
\* parsing of a response and the insertion of its record, which is dropped
TaskStreamEndBeforeInsert(t) ==
    /\ tasks[t].pc \in {"next", "parsed"}
    /\ tasks' = [tasks EXCEPT ![t].pc = "finishing", ![t].record = None]
    /\ UNCHANGED <<device_records, poll_start_time, poll_finish_time,
                   timeout_ms, clock, records_lock, finish_lock, poisoned,
                   yielded, history, parser_vars>>

\* the stream ends or its timeout expires: the for loop is left
\* (discoverycache.rs:58, 65)
TaskStreamEnd(t) ==
    /\ tasks[t].pc = "next"
    /\ tasks' = [tasks EXCEPT ![t].pc = "finishing"]
    /\ UNCHANGED <<device_records, poll_start_time, poll_finish_time,
                   timeout_ms, clock, records_lock, finish_lock, poisoned,
                   yielded, history, parser_vars>>

\* data.lock().unwrap() (discoverycache.rs:61)
TaskLockRecords(t) ==
    /\ tasks[t].pc = "parsed"
    /\ records_lock = NoHolder
    /\ IF "device_records" \in poisoned
       THEN Panic(t)
       ELSE /\ records_lock' = t
            /\ tasks' = [tasks EXCEPT ![t].pc = "insert"]
            /\ UNCHANGED <<finish_lock, poisoned>>
    /\ UNCHANGED <<device_records, poll_start_time, poll_finish_time,
                   timeout_ms, clock, yielded, history, parser_vars>>

\* a bug the code could have: the set's guard is declared outside the for
\* loop, so that it is still held while the thread waits for the next item
TaskInsertKeepingGuard(t) ==
    /\ tasks[t].pc = "insert"
    /\ records_lock = t
    /\ device_records' = insert(device_records, unwrap(tasks[t].record))
    /\ tasks' = [tasks EXCEPT ![t].pc = "next", ![t].record = None]
    /\ history' = [history EXCEPT !.inserts = @ + 1,
                                  !.inserted = @ \cup {unwrap(tasks[t].record)}]
    /\ UNCHANGED <<poll_start_time, poll_finish_time, timeout_ms, clock,
                   records_lock, finish_lock, poisoned, yielded, parser_vars>>

\* records.insert(record.clone()), then the guard is dropped
\* (discoverycache.rs:62-63)
TaskInsert(t) ==
    /\ tasks[t].pc = "insert"
    /\ records_lock = t
    /\ device_records' = insert(device_records, unwrap(tasks[t].record))
    /\ records_lock' = NoHolder
    /\ tasks' = [u \in TaskIds |->
                    IF u = t THEN [tasks[u] EXCEPT !.pc = "next", !.record = None]
                    ELSE IF tasks[u].pc = "begin"
                         THEN [tasks[u] EXCEPT !.disturbed = TRUE]
                         ELSE tasks[u]]
    /\ history' = [history EXCEPT !.inserts = @ + 1,
                                  !.inserted = @ \cup {unwrap(tasks[t].record)}]
    /\ UNCHANGED <<poll_start_time, poll_finish_time, timeout_ms, clock,
                   finish_lock, poisoned, yielded, parser_vars>>

\* poll_time.lock().unwrap() (discoverycache.rs:67)
TaskLockFinish(t) ==
    /\ tasks[t].pc = "finishing"
    /\ finish_lock = NoHolder
    /\ IF "poll_finish_time" \in poisoned
       THEN Panic(t)
       ELSE /\ finish_lock' = t
            /\ tasks' = [tasks EXCEPT ![t].pc = "write"]
            /\ UNCHANGED <<records_lock, poisoned>>
    /\ UNCHANGED <<device_records, poll_start_time, poll_finish_time,
                   timeout_ms, clock, yielded, history, parser_vars>>

\* a bug the code could have: the thread ends without writing the time
TaskEndsWithoutWrite(t) ==
    /\ tasks[t].pc = "write"
    /\ finish_lock = t
    /\ finish_lock' = NoHolder
    /\ tasks' = [tasks EXCEPT ![t].pc = "done", ![t].timeout = None]
    /\ UNCHANGED <<device_records, poll_start_time, poll_finish_time,
                   timeout_ms, clock, records_lock, poisoned, yielded,
                   history, parser_vars>>

\* *last_poll = Instant::now(), then the closure returns: the guard and
\* what the closure owns are dropped (discoverycache.rs:68-69)
TaskWriteFinish(t) ==
    /\ tasks[t].pc = "write"
    /\ finish_lock = t
    /\ \E now \in Readings :
        /\ clock' = now
        /\ poll_finish_time' = now
    /\ finish_lock' = NoHolder
    /\ tasks' = [tasks EXCEPT ![t].pc = "done", ![t].timeout = None]
    /\ UNCHANGED <<device_records, poll_start_time, timeout_ms, records_lock,
                   poisoned, yielded, history, parser_vars>>

TaskStep(t) ==
    \/ TaskBeginOk(t)
    \/ TaskBeginFail(t)
    \/ TaskResponse(t)
    \/ TaskErrorItem(t)
    \/ TaskStreamEnd(t)
    \/ TaskLockRecords(t)
    \/ TaskInsert(t)
    \/ TaskLockFinish(t)
    \/ TaskWriteFinish(t)

-----------------------------------------------------------------------------
(* Specifications *)

\* the cache, its caller and its poll threads
Init ==
    /\ NewCache
    /\ p_pc = "idle"
    /\ p_response = <<>>
    /\ p_result = None
    /\ p_name = None

Next ==
    \/ StartDiscovery
    \/ Devices
    \/ \E t \in TaskIds : TaskStep(t)

Spec == Init /\ [][Next]_vars

\* the poll threads are scheduled fairly and the transport's stream ends
SpecFair == Spec /\ \A t \in TaskIds : WF_vars(TaskStep(t))

\* the cache with a caller that starts polls and assigns the timeout field
\* in between (devices(), which reads the set only, is left to Spec)
NextTimeout ==
    \/ StartDiscovery
    \/ SetTimeout
    \/ \E t \in TaskIds : TaskStep(t)

SpecTimeout == Init /\ [][NextTimeout]_vars

\* the parser applied to every response of at most MaxSize
InitParser ==
    /\ NewCache
    /\ p_pc = "input"
    /\ p_response = <<>>
    /\ p_result = None
    /\ p_name = None

NextParser ==
    \/ ResponseAddRecord
    \/ ResponseAddEntry
    \/ Parse

SpecParser == InitParser /\ [][NextParser]_vars

\* the parser applied to every response of at most MaxRecords advertised
\* records, and display_name to every record it returns
NextRecord ==
    \/ ResponseAddAdvertised
    \/ Parse
    \/ DisplayName

SpecRecord == InitParser /\ [][NextRecord]_vars

-----------------------------------------------------------------------------
(* Claims about the poll lifecycle *)

\* the poll threads that are running: spawned, neither finished nor dead
Running == {t \in TaskIds :
              tasks[t].pc \notin {"unspawned", "done", "panicked"}}

\* the poll threads that were spawned and have not recorded a finish time
Unfinished == {t \in TaskIds : tasks[t].pc \notin {"unspawned", "done"}}

\* C1: at most one poll thread of the cache is in flight at any time; a
\* start_discovery() made while a spawned poll has not yet recorded its
\* finish time spawns no second one.
C1_AtMostOnePollInFlight == Cardinality(Running) <= 1

\* C2: is_discovery_running() is false before any start_discovery(), true
\* from the return of a start_discovery() that spawned a poll until that
\* poll records its finish time, whatever the clock reads, and false once
\* it has recorded it.
C2_RunningIffPollUnfinished == is_discovery_running <=> Unfinished # {}

-----------------------------------------------------------------------------
(* Claims about the parser, stated on the response itself *)

Kinds(response) == {response[i].kind : i \in 1..Len(response)}
HasAddress(response) == Kinds(response) \cap {"A", "AAAA"} # {}
HasPort(response) == "SRV" \in Kinds(response)

\* every attribute entry of the response, in scan order
RECURSIVE AllEntries(_)
AllEntries(response) ==
    IF response = <<>> THEN <<>>
    ELSE (IF Head(response).kind = "TXT" THEN Head(response).records ELSE <<>>)
            \o AllEntries(Tail(response))

EqualsSigns(entry) == {i \in 1..Len(entry) : entry[i] = "="}
FirstEquals(entry) == CHOOSE i \in EqualsSigns(entry) :
                          \A j \in EqualsSigns(entry) : i <= j
KeyOf(entry) == SubSeq(entry, 1, FirstEquals(entry) - 1)
RestOf(entry) == SubSeq(entry, FirstEquals(entry) + 1, Len(entry))

\* an entry that splits into exactly two parts on '='
TwoParts(entry) == Cardinality(EqualsSigns(entry)) = 1
\* an entry that has a key and a value when split at its first '='
HasEquals(entry) == EqualsSigns(entry) # {}

\* the value of the last entry that has the key, among the entries that
\* split into exactly two parts (exactly) or that have an '=' at all
LastValue(response, key, exactly) ==
    LET entries == AllEntries(response)
        hits == {i \in 1..Len(entries) :
                    /\ IF exactly THEN TwoParts(entries[i])
                                  ELSE HasEquals(entries[i])
                    /\ KeyOf(entries[i]) = key}
    IN  IF hits = {} THEN None ELSE Some(RestOf(entries[Max(hits)]))

\* the fields of a record against the entries of the response
FieldsAre(record, response, exactly) ==
    /\ record.certificate_authority = LastValue(response, <<"c", "a">>, exactly)
    /\ record.friendly_name = LastValue(response, <<"f", "n">>, exactly)
    /\ record.icon_path = LastValue(response, <<"i", "c">>, exactly)
    /\ record.device_uuid = LastValue(response, <<"i", "d">>, exactly)
    /\ record.model = LastValue(response, <<"m", "d">>, exactly)
    /\ record.version = LastValue(response, <<"v", "e">>, exactly)

\* C3: the parser returns a record if and only if the response holds at
\* least one address record (A or AAAA) and at least one SRV record.
C3_RecordIffAddressAndPort ==
    p_pc = "done" =>
        (p_result # None <=> HasAddress(p_response) /\ HasPort(p_response))

\* a response with an address, a PTR and a TXT record but no SRV was parsed
C3_Witness ==
    /\ p_pc = "done"
    /\ HasAddress(p_response)
    /\ {"PTR", "TXT"} \subseteq Kinds(p_response)
    /\ ~HasPort(p_response)
    /\ p_result = None

\* C4: with an address and a port present, each optional metadata field is
\* the value of the last entry with its key among the entries that split
\* into exactly two parts on '=', and absent if there is none; other entries
\* change nothing and do not cause rejection.
C4_FieldsAreLastTwoPartEntry ==
    (p_pc = "done" /\ HasAddress(p_response) /\ HasPort(p_response)) =>
        /\ p_result # None
        /\ FieldsAre(unwrap(p_result), p_response, TRUE)

\* a record was returned for a response that gives fn twice, the later
\* value being the one kept
C4_Witness ==
    /\ p_pc = "done"
    /\ p_result # None
    /\ \E i, j \in 1..Len(AllEntries(p_response)) :
        /\ i < j
        /\ AllEntries(p_response)[i] = <<"f", "n", "=", "a">>
        /\ AllEntries(p_response)[j] = <<"f", "n", "=", "b">>
    /\ unwrap(p_result).friendly_name = Some(<<"b">>)

\* C5: each entry is split at its first '=' only: the key is the text before
\* it and a recognized key's field is set to the whole remainder, so that
\* "fn=a=b" sets friendly_name to "a=b".
C5_SplitAtFirstEqualsOnly ==
    (p_pc = "done" /\ p_result # None) =>
        FieldsAre(unwrap(p_result), p_response, FALSE)

-----------------------------------------------------------------------------
(* Claims about the discovered set and about failing polls *)

\* C6: insertion is idempotent under structural equality: an insert of a
\* record already stored leaves the set unchanged, an insert of a record
\* that differs from every stored one in any field adds it as a separate
\* entry, and no record is ever stored twice.
C6_InsertIsIdempotent ==
    [][\A t \in TaskIds :
        (tasks[t].pc = "insert" /\ tasks'[t].pc = "next") =>
            LET record == unwrap(tasks[t].record)
            IN  /\ record \in DOMAIN device_records
                        => device_records' = device_records
                /\ record \notin DOMAIN device_records
                        => DOMAIN device_records' =
                                DOMAIN device_records \cup {record}
                /\ \A r \in DOMAIN device_records' : device_records'[r] = 1
      ]_vars

\* two inserts were made, the second of a record equal to the stored one
C6_Witness ==
    /\ history.inserts = 2
    /\ Cardinality(history.responses) = 1
    /\ Cardinality(DOMAIN device_records) = 1

\* the addresses the records of a response carry
Addresses(response) ==
    {response[i].addr : i \in {j \in 1..Len(response) :
                                  response[j].kind \in {"A", "AAAA"}}}

\* C7: every record of every snapshot devices() returned is the complete
\* output of the parser on one single response the transport yielded, with
\* an address and a port.
C7_SnapshotsHoldParserOutputs ==
    \A record \in history.snapshot :
        \E response \in history.responses :
            /\ HasAddress(response)
            /\ HasPort(response)
            /\ record.ip_addr \in Addresses(response)
            /\ from_mdns(response) = Some(record)

\* a snapshot taken while a poll is in flight holds what that poll has
\* inserted so far, the poll having parsed one more record
C7_Witness ==
    /\ history.snapshot # {}
    /\ history.snapshot = DOMAIN device_records
    /\ \E t \in TaskIds :
        /\ Running = {t}
        /\ tasks[t].pc = "parsed"
        /\ unwrap(tasks[t].record) \notin history.snapshot

\* C8: a poll whose query the transport fails to begin never records a
\* finish time; from then on is_discovery_running() is true forever and
\* every later start_discovery() spawns nothing.
C8_FailedPollKeepsCacheRunning ==
    (\E t \in TaskIds : tasks[t].pc = "panicked") => is_discovery_running

\* C9: a poll whose query cannot be started leaves the shared state intact:
\* its death changes nothing in the discovered set, which is what it was
\* when the poll was spawned unless another poll inserted meanwhile; the
\* thread dies holding neither lock and does nothing afterwards; no lock is
\* ever poisoned, so the caller's calls keep returning normally.
C9_FailedPollLeavesStateIntact ==
    [][/\ poisoned' = {}
       /\ history'.caller = "running"
       /\ \A t \in TaskIds :
            /\ (tasks[t].pc = "begin" /\ tasks'[t].pc = "panicked") =>
                    /\ device_records' = device_records
                    /\ ~tasks[t].disturbed => device_records = tasks[t].before
                    /\ records_lock' = records_lock
                    /\ finish_lock' = finish_lock
            /\ tasks'[t].pc = "panicked" =>
                    /\ records_lock' # t
                    /\ finish_lock' # t
            /\ tasks[t].pc = "panicked" => tasks'[t] = tasks[t]
      ]_vars

\* the second poll died at its query, the set still holds what the first
\* poll inserted and devices() has returned it
C9_Witness ==
    /\ tasks[1].pc = "done"
    /\ tasks[2].pc = "panicked"
    /\ DOMAIN device_records # {}
    /\ history.snapshot = DOMAIN device_records
    /\ history.caller = "running"

\* the places of a poll thread between its query and its finish time
InLoop == {"next", "parsed", "insert", "finishing", "write"}

\* C10: under fair scheduling of the poll threads, every poll whose query
\* was started leaves its loop, and leaves it only by recording its finish
\* time; at that moment is_discovery_running() is false and the finish
\* time's lock is free, so that a start_discovery() can spawn again.
C10_StartedPollFinishes ==
    /\ \A t \in TaskIds : []<>(tasks[t].pc \notin InLoop)
    /\ [][\A t \in TaskIds :
            /\ tasks[t].pc \in InLoop => tasks'[t].pc \in InLoop \cup {"done"}
            /\ (tasks[t].pc \in InLoop /\ tasks'[t].pc = "done") =>
                    /\ poll_finish_time' = clock'
                    /\ ~is_discovery_running'
                    /\ finish_lock' = NoHolder
         ]_vars

\* a poll that received responses and inserted has finished, and the cache
\* is not running
C10_Witness ==
    /\ \E t \in TaskIds : tasks[t].pc = "done"
    /\ history.inserts > 0
    /\ Running = {}
    /\ ~is_discovery_running

-----------------------------------------------------------------------------
(* Claims about locking and about what the caller's calls see and change *)

\* C11: a poll thread holds no lock while it waits on the transport (before
\* its query is begun, and between two items of the stream): the set's lock
\* is held at the insert only and released by it, the finish time's lock at
\* the timestamp write only and released by it, and no thread ever holds
\* both; so the transport wait of a poll never keeps devices() or
\* is_discovery_running() from taking their lock.
C11_NoLockHeldWhileWaiting ==
    /\ [](\A t \in TaskIds :
            /\ records_lock = t <=> tasks[t].pc = "insert"
            /\ finish_lock = t <=> tasks[t].pc = "write"
            /\ tasks[t].pc \in {"begin", "next"} => HeldBy(t) = {})
    /\ [][\A t \in TaskIds :
            /\ (records_lock = t /\ tasks'[t] # tasks[t]) => records_lock' = NoHolder
            /\ (finish_lock = t /\ tasks'[t] # tasks[t]) => finish_lock' = NoHolder
         ]_vars

\* the only running poll has inserted a record and waits for the next item;
\* both locks are free and devices() has returned what was inserted
C11_Witness ==
    /\ \E t \in TaskIds :
        /\ Running = {t}
        /\ tasks[t].pc = "next"
    /\ history.inserts > 0
    /\ records_lock = NoHolder
    /\ finish_lock = NoHolder
    /\ is_discovery_running
    /\ history.snapshot # {}
    /\ history.snapshot = DOMAIN device_records

\* C12: devices() returns exactly the records whose insertion has completed
\* when it takes the lock, those of a poll still in flight included, and
\* changes nothing in the cache (set, start time, finish time, timeout, the
\* poll threads, the locks); an insert made afterwards does not change the
\* snapshot already returned.
C12_DevicesReturnsCompletedInserts ==
    [][/\ history'.snapshot # history.snapshot =>
            /\ history'.snapshot = history.inserted
            /\ history'.snapshot = Stored(device_records)
            /\ UNCHANGED <<device_records, poll_start_time, poll_finish_time,
                           timeout_ms, tasks, records_lock, finish_lock,
                           poisoned>>
       /\ (history'.inserted # history.inserted
                \/ device_records' # device_records) =>
            history'.snapshot = history.snapshot
      ]_vars

\* devices() returned the first record of a poll in flight, and the poll,
\* still in flight, has since inserted a second one, absent from the snapshot
C12_Witness ==
    /\ Running # {}
    /\ history.snapshot # {}
    /\ history.snapshot \subseteq history.inserted
    /\ history.inserted \ history.snapshot # {}
    /\ Cardinality(DOMAIN device_records) = 2

\* C13: the bound of a poll is the value the timeout field had at the
\* start_discovery() that spawned it: the field is 2000 ms at construction
\* and is changed by nothing but an assignment; the spawn copies the field's
\* value into the thread, and no later step, an assignment made while the
\* poll is in flight included, changes the copy of a thread in flight.
C13_PollKeepsTimeoutOfItsSpawn ==
    /\ timeout_ms = DEFAULT_TIMEOUT_MS
    /\ [][/\ timeout_ms' # timeout_ms =>
                UNCHANGED <<device_records, poll_start_time, poll_finish_time,
                            clock, tasks, records_lock, finish_lock, poisoned,
                            yielded, history>>
          /\ \A t \in TaskIds :
                /\ (tasks[t].pc = "unspawned" /\ tasks'[t].pc # "unspawned") =>
                        /\ tasks'[t].timeout = Some(timeout_ms)
                        /\ timeout_ms' = timeout_ms
                /\ (t \in Running /\ t \in Running') =>
                        tasks'[t].timeout = tasks[t].timeout
         ]_vars

\* the first poll has finished; the second was spawned after an assignment
\* and is in flight with the assigned value, while the field has been
\* assigned the default again
C13_Witness ==
    /\ tasks[1].pc = "done"
    /\ tasks[2].pc \in InLoop
    /\ tasks[2].timeout = Some(500)
    /\ timeout_ms = DEFAULT_TIMEOUT_MS

-----------------------------------------------------------------------------
(* Claims about what a poll does with the items of its stream *)

\* C14: an item of the stream never ends a poll: when the transport yields
\* an item, the only change to a poll thread is a move to the insertion of
\* the record parsed from it; an Err item and a response that parses to no
\* record leave every thread, the set and the locks as they were. A thread
\* that has parsed a record, whatever it skipped before, goes on to insert
\* exactly that record, and under fair scheduling it does so and the poll
\* leaves its loop, which it only does by recording its finish time.
C14_SkippedItemsDoNotEndPoll ==
    /\ \A t \in TaskIds : []<>(tasks[t].pc \in {"unspawned", "begin", "done",
                                             "panicked"})
    /\ [][/\ yielded' # yielded =>
                /\ \A t \in TaskIds :
                        \/ tasks'[t] = tasks[t]
                        \/ /\ tasks[t].pc = "next"
                           /\ tasks'[t].pc = "parsed"
                           /\ \E response \in history'.responses :
                                tasks'[t].record = from_mdns(response)
                           /\ tasks'[t].record # None
                /\ (\E response \in history'.responses \ history.responses :
                        from_mdns(response) = None) => tasks' = tasks
                /\ tasks' = tasks =>
                        UNCHANGED <<device_records, poll_finish_time,
                                    records_lock, finish_lock, poisoned>>
          /\ \A t \in TaskIds :
                /\ tasks[t].pc = "parsed" =>
                        /\ tasks'[t].pc \in {"parsed", "insert"}
                        /\ tasks'[t].record = tasks[t].record
                /\ tasks[t].pc = "insert" =>
                        \/ tasks'[t] = tasks[t]
                        \/ /\ tasks'[t].pc = "next"
                           /\ unwrap(tasks[t].record) \in DOMAIN device_records'
                /\ (tasks[t].pc \in InLoop /\ tasks'[t].pc \notin InLoop) =>
                        /\ tasks'[t].pc = "done"
                        /\ poll_finish_time' = clock'
         ]_vars

\* the only poll has skipped a response that parsed to no record, nothing
\* being inserted, and holds the set's lock to insert the record of the
\* response that came next
C14_Witness ==
    /\ Running = {1}
    /\ tasks[2].pc = "unspawned"
    /\ tasks[1].pc = "insert"
    /\ yielded = 2
    /\ history.inserts = 0
    /\ \E response \in history.responses : from_mdns(response) = None
    /\ tasks[1].record # None

-----------------------------------------------------------------------------
(* Claims about one device record *)

\* the response of address 198.51.100.7, port 8009 and the attributes
\* "fn=Living Room", "md=Chromecast Ultra"
LivingRoomResponse ==
    << [kind |-> "A", addr |-> "198.51.100.7"],
       [kind |-> "SRV", port |-> 8009],
       LivingRoomTxt >>

LivingRoomName ==
    <<"L", "i", "v", "i", "n", "g", " ", "R", "o", "o", "m", " ", "(",
      "198.51.100.7", ")">>

\* C15: display_name() is the friendly name, a space and the address in
\* parentheses when the record has a friendly name, and "Unnamed", a space
\* and the address in parentheses when it has none; the record parsed from
\* address 198.51.100.7, port 8009 and the attributes "fn=Living Room",
\* "md=Chromecast Ultra" displays as "Living Room (198.51.100.7)".
C15_DisplayNameIsNameAndAddress ==
    p_pc = "shown" =>
        LET record == unwrap(p_result)
            address == <<"(", record.ip_addr, ")">>
        IN  /\ p_name # None
            /\ record.friendly_name # None =>
                    unwrap(p_name) = unwrap(record.friendly_name)
                                        \o <<" ">> \o address
            /\ record.friendly_name = None =>
                    unwrap(p_name) = <<"U", "n", "n", "a", "m", "e", "d", " ">>
                                        \o address
            /\ p_response = LivingRoomResponse =>
                    unwrap(p_name) = LivingRoomName

\* the record of the Living Room advertisement has been displayed
C15_Witness ==
    /\ p_pc = "shown"
    /\ p_response = LivingRoomResponse
    /\ unwrap(p_result).friendly_name # None
    /\ p_name = Some(LivingRoomName)

\* the places of the records of the given kinds in a response
Places(response, kinds) ==
    {i \in 1..Len(response) : response[i].kind \in kinds}

\* C16: within one response the parser is last-write-wins per field: the
\* address of the record returned is that of the last A or AAAA record in
\* scan order, whichever of the two kinds it is, the port that of the last
\* SRV record, and the service pointer that of the last PTR record, absent
\* if there is none; the three are fixed by the records of the one response.
C16_LastRecordOfKindWins ==
    (p_pc \in {"done", "shown"} /\ p_result # None) =>
        LET record == unwrap(p_result)
            addresses == Places(p_response, {"A", "AAAA"})
            ports == Places(p_response, {"SRV"})
            pointers == Places(p_response, {"PTR"})
        IN  /\ addresses # {}
            /\ record.ip_addr = p_response[Max(addresses)].addr
            /\ ports # {}
            /\ record.port = p_response[Max(ports)].port
            /\ record.ptr = IF pointers = {} THEN None
                            ELSE Some(p_response[Max(pointers)].string)

\* a response with an A record followed by an AAAA record and with two SRV
\* records of different ports was parsed: the record has the AAAA record's
\* address and the second port
C16_Witness ==
    /\ p_pc = "done"
    /\ p_result # None
    /\ \E i, j, k, l \in 1..Len(p_response) :
        /\ i < j
        /\ p_response[i].kind = "A"
        /\ p_response[j].kind = "AAAA"
        /\ k < l
        /\ p_response[k].kind = "SRV"
        /\ p_response[l].kind = "SRV"
        /\ p_response[k].port # p_response[l].port
        /\ unwrap(p_result).ip_addr = p_response[j].addr
        /\ unwrap(p_result).port = p_response[l].port

-----------------------------------------------------------------------------
(* Claims about the calls of the caller and about the growth of the set *)

\* C17: a start_discovery() made while is_discovery_running() is true is a
\* complete no-op: the call returns, and whatever it does it leaves the
\* start time, the finish time, the set, the timeout and everything else
\* unchanged, spawns no thread and does not panic.
C17_StartWhileRunningIsNoOp ==
    (CallerAlive /\ finish_lock = NoHolder /\ is_discovery_running) =>
        /\ ENABLED StartDiscovery
        /\ ~ENABLED (StartDiscovery /\ vars' # vars)

\* a poll that has inserted a record is in flight, is_discovery_running()
\* is true and a start_discovery() made now returns with nothing changed
C17_Witness ==
    /\ is_discovery_running
    /\ \E t \in TaskIds :
        /\ Running = {t}
        /\ tasks[t].pc = "next"
    /\ history.inserts > 0
    /\ \E t \in TaskIds : tasks[t].pc = "unspawned"
    /\ ENABLED (StartDiscovery /\ UNCHANGED vars)

\* C18: the discovered set only grows: no step removes a record from it,
\* every snapshot devices() returns is part of the set, and a snapshot
\* contains the snapshot returned before it, across any number of polls.
C18_SetOnlyGrows ==
    /\ [](history.snapshot \subseteq DOMAIN device_records)
    /\ [][/\ DOMAIN device_records \subseteq DOMAIN device_records'
          /\ history.snapshot \subseteq history'.snapshot
          /\ history.inserted \subseteq DOMAIN device_records'
         ]_vars

\* two polls have finished, each having inserted a record of its own, and
\* devices() has returned both records
C18_Witness ==
    /\ \A t \in TaskIds : tasks[t].pc = "done"
    /\ history.inserts = 2
    /\ Cardinality(DOMAIN device_records) = 2
    /\ history.snapshot = DOMAIN device_records
    /\ poll_finish_time > 0

\* the places of a poll thread after its loop
AfterLoop == {"finishing", "write", "done"}

\* the records parsed from the responses the transport has yielded
ParsedRecords ==
    {unwrap(from_mdns(response)) :
        response \in {r \in history.responses : from_mdns(r) # None}}

\* the records that a poll thread has parsed and not yet inserted
PendingRecords ==
    {unwrap(tasks[t].record) :
        t \in {u \in TaskIds : tasks[u].pc \in {"parsed", "insert"}}}

\* C19: a poll writes its finish time only after all of its insertions: a
\* thread that has left its loop has no record waiting to be inserted and
\* never goes back to inserting; a record a thread has parsed stops waiting
\* only by being stored, so that every record parsed from a response is
\* stored unless a thread still in its loop is about to insert it; every
\* snapshot devices() returns contains all of them but those, hence all the
\* records of the polls that have completed.
C19_FinishTimeAfterAllInsertions ==
    /\ [](/\ \A t \in TaskIds :
                tasks[t].pc \in AfterLoop => tasks[t].record = None
          /\ ParsedRecords \subseteq DOMAIN device_records \cup PendingRecords)
    /\ [][/\ \A t \in TaskIds :
                /\ tasks[t].pc \in AfterLoop =>
                        /\ tasks'[t].pc \in AfterLoop
                        /\ tasks'[t].record = None
                /\ (tasks[t].record # None
                        /\ tasks'[t].record # tasks[t].record) =>
                        /\ tasks'[t].record = None
                        /\ unwrap(tasks[t].record) \in DOMAIN device_records'
                /\ (tasks[t].pc # "done" /\ tasks'[t].pc = "done") =>
                        /\ tasks[t].pc = "write"
                        /\ poll_finish_time' = clock'
                        /\ device_records' = device_records
          /\ history'.snapshot # history.snapshot =>
                ParsedRecords \subseteq history'.snapshot \cup PendingRecords
         ]_vars

\* the only poll spawned has received two responses, inserted their two
\* records and recorded its finish time; is_discovery_running() is false
\* and devices() has returned both records
C19_Witness ==
    /\ tasks[1].pc = "done"
    /\ tasks[2].pc = "unspawned"
    /\ ~is_discovery_running
    /\ Cardinality(ParsedRecords) = 2
    /\ PendingRecords = {}
    /\ history.snapshot = ParsedRecords

=============================================================================
